---- MODULE Spec2Model ----
(***************************************************************************)
(* The chat pipeline of the Wright chatbot (godrick/):                     *)
(*   - the conversation store (services/conversationService.js over the    *)
(*     SQLite schema of db/database.js),                                   *)
(*   - the two identity middlewares (middleware/auth.js),                  *)
(*   - the POST /api/chat handler of server.js with its three stream       *)
(*     listeners, and                                                      *)
(*   - the conversation-management routes (routes/conversations.js).       *)
(*                                                                         *)
(* Optional values (undefined / null in the JavaScript) are sets with at   *)
(* most one element: None is the empty set, Some(x) is {x}.  Text is a     *)
(* sequence of one-character strings.                                      *)
(***************************************************************************)
EXTENDS Integers, Sequences, FiniteSets, TLC

\* ------------------------------------------------------------------------
\* Bounds of the model
\* ------------------------------------------------------------------------
MaxReqs == 2        \* chat requests per behaviour
MaxTokens == 2      \* text events one gateway stream emits
MaxConvs == 2       \* conversation rows ever inserted
MaxClock == 1       \* seconds CURRENT_TIMESTAMP advances

\* conversationService.js:93  firstMessage.substring(0, 50)
TitleLimit == 50

None == {}
Some(x) == {x}
The(s) == CHOOSE x \in s : TRUE

Reqs == 1..MaxReqs
UserIds == {1, 2}                \* rows of the users table
GhostIds == {3}                  \* a user id no row of the users table has
ConvIds == 1..MaxConvs           \* ids a client can put in a request

Rep(c, n) == [i \in 1..n |-> c]

ShortA == <<"a">>
ShortB == <<"b">>
LongD == Rep("d", TitleLimit + 1)
Contents == {ShortA, ShortB, LongD}
NewTitles == {<<"t">>}
DefaultTitle == <<"N", "e", "w">>    \* 'New conversation'
Ellipsis == <<".", ".", ".">>

Msg(role, content) == [role |-> role, content |-> content]

\* req.body.messages: None when the field is missing or is not an array
Histories ==
    { None,
      Some(<<>>),
      Some(<<Msg("user", ShortA)>>),
      Some(<<Msg("user", LongD)>>),
      Some(<<Msg("user", ShortA), Msg("assistant", <<"x">>), Msg("user", ShortB)>>) }

\* The text of the k-th text event of a gateway stream
TokenAt(k) == IF k % 2 = 1 THEN <<"x">> ELSE <<"y">>

\* ------------------------------------------------------------------------
\* Credentials
\* ------------------------------------------------------------------------
\* A bearer token: the user id it was signed for and whether jwt.verify
\* accepts it (signature and expiry).
Tokens == {[userId |-> u, valid |-> TRUE] : u \in UserIds \cup GhostIds}
          \cup {[userId |-> u, valid |-> FALSE] : u \in {1}}

\* The Authorization header: absent, present without a second word
\* ("malformed"), or "Bearer <token>".
Headers == {[kind |-> "absent"], [kind |-> "malformed"]}
           \cup {[kind |-> "bearer", token |-> t] : t \in Tokens}

\* authHeader && authHeader.split(' ')[1]
HeaderToken(h) == IF h.kind = "bearer" THEN Some(h.token) ELSE None

verifyToken(token) == IF token.valid THEN Some([userId |-> token.userId]) ELSE None

getUserById(id) == IF id \in UserIds THEN Some([id |-> id]) ELSE None

\* optionalAuth reading the token's payload without verifying it
optionalAuthUnverified(h) ==
    LET token == HeaderToken(h) IN
    IF token # None THEN getUserById(The(token).userId) ELSE None

\* optionalAuth taking the verified payload for the user without looking
\* the user up
optionalAuthAnyUser(h) ==
    LET token == HeaderToken(h) IN
    IF token # None
    THEN LET decoded == verifyToken(The(token)) IN
         IF decoded # None THEN Some([id |-> The(decoded).userId]) ELSE None
    ELSE None

\* optionalAuth: the value of req.user when next() is called
optionalAuth(h) ==
    LET token == HeaderToken(h) IN
    IF token # None
    THEN LET decoded == verifyToken(The(token)) IN
         IF decoded # None THEN getUserById(The(decoded).userId) ELSE None
    ELSE None

\* authenticateToken reading the token's payload without verifying it
authenticateTokenUnverified(h) ==
    LET token == HeaderToken(h) IN
    IF token = None
    THEN [ok |-> FALSE, status |-> 401, error |-> "Access token required"]
    ELSE LET user == getUserById(The(token).userId) IN
         IF user = None
         THEN [ok |-> FALSE, status |-> 403, error |-> "User not found"]
         ELSE [ok |-> TRUE, user |-> The(user)]

\* authenticateToken: either a rejection (status, error) or req.user
authenticateToken(h) ==
    LET token == HeaderToken(h) IN
    IF token = None
    THEN [ok |-> FALSE, status |-> 401, error |-> "Access token required"]
    ELSE LET decoded == verifyToken(The(token)) IN
         IF decoded = None
         THEN [ok |-> FALSE, status |-> 403, error |-> "Invalid or expired token"]
         ELSE LET user == getUserById(The(decoded).userId) IN
              IF user = None
              THEN [ok |-> FALSE, status |-> 403, error |-> "User not found"]
              ELSE [ok |-> TRUE, user |-> The(user)]

\* ------------------------------------------------------------------------
\* The conversation store
\* ------------------------------------------------------------------------
\* A database value d: the conversations table as a function from the ids
\* of its rows, the messages table as the sequence of its rows in insertion
\* (rowid) order, and the two AUTOINCREMENT sequences.
EmptyDb == [conversations |-> <<>>, messages |-> <<>>, convSeq |-> 0, msgSeq |-> 0]

\* SELECT * FROM conversations WHERE id = ?  (the owner is not asked for)
getConversationByIdAnyOwner(d, conversationId, userId) ==
    IF conversationId \in DOMAIN d.conversations
    THEN Some(d.conversations[conversationId])
    ELSE None

\* SELECT * FROM conversations WHERE id = ? AND user_id = ?
getConversationById(d, conversationId, userId) ==
    IF /\ conversationId \in DOMAIN d.conversations
       /\ d.conversations[conversationId].user_id = userId
    THEN Some(d.conversations[conversationId])
    ELSE None

\* INSERT INTO conversations (user_id, title), then read the row back
createConversation(d, t, userId, title) ==
    LET id == d.convSeq + 1
        row == [id |-> id, user_id |-> userId, title |-> title,
                created_at |-> t, updated_at |-> t]
        d2 == [d EXCEPT !.conversations = [i \in DOMAIN @ \cup {id} |->
                                              IF i = id THEN row ELSE @[i]],
                        !.convSeq = id]
    IN [db |-> d2, ret |-> getConversationById(d2, id, userId)]

\* SELECT id, title, created_at, updated_at ... WHERE user_id = ?
\* ORDER BY updated_at DESC: every order of the rows the query allows
getUserConversations(d, userId) ==
    LET own == {i \in DOMAIN d.conversations : d.conversations[i].user_id = userId}
        Row(i) == [id |-> i, title |-> d.conversations[i].title,
                   created_at |-> d.conversations[i].created_at,
                   updated_at |-> d.conversations[i].updated_at]
    IN { s \in [1..Cardinality(own) -> {Row(i) : i \in own}] :
            /\ \A i, j \in DOMAIN s : i # j => s[i] # s[j]
            /\ \A i, j \in DOMAIN s : i < j => s[i].updated_at >= s[j].updated_at }

\* The rows of the messages table of one conversation, in rowid order
MessagesOf(d, conversationId) ==
    LET Mine(m) == m.conversation_id = conversationId
    IN SelectSeq(d.messages, Mine)

\* SELECT id, role, content, created_at FROM messages WHERE conversation_id = ?
\* ORDER BY created_at ASC: every order of the rows the query allows (rows
\* of equal created_at come in an order the query does not fix)
OrderedMessages(d, conversationId) ==
    LET rows == MessagesOf(d, conversationId)
        Cols(m) == [id |-> m.id, role |-> m.role, content |-> m.content,
                    created_at |-> m.created_at]
        all == {Cols(rows[i]) : i \in DOMAIN rows}
    IN { s \in [1..Len(rows) -> all] :
            /\ \A i, j \in DOMAIN s : i # j => s[i] # s[j]
            /\ \A i, j \in DOMAIN s : i < j => s[i].created_at <= s[j].created_at }

\* The results getConversationWithMessages can return
getConversationWithMessages(d, conversationId, userId) ==
    LET conversation == getConversationById(d, conversationId, userId) IN
    IF conversation = None THEN {None}
    ELSE { Some([conversation |-> The(conversation), messages |-> ms]) :
              ms \in OrderedMessages(d, conversationId) }

\* UPDATE conversations SET title = ?, updated_at = CURRENT_TIMESTAMP
\* WHERE id = ? AND user_id = ?
updateConversationTitle(d, t, conversationId, userId, title) ==
    LET d2 == IF getConversationById(d, conversationId, userId) # None
              THEN [d EXCEPT !.conversations[conversationId].title = title,
                             !.conversations[conversationId].updated_at = t]
              ELSE d
    IN [db |-> d2, ret |-> getConversationById(d2, conversationId, userId)]

\* DELETE FROM conversations WHERE id = ? AND user_id = ? with foreign keys
\* off: the messages of the row stay
deleteConversationNoCascade(d, conversationId, userId) ==
    LET hit == getConversationById(d, conversationId, userId) # None
        d2 == IF hit
              THEN [d EXCEPT !.conversations = [i \in DOMAIN @ \ {conversationId} |-> @[i]]]
              ELSE d
    IN [db |-> d2, ret |-> hit]

\* DELETE FROM conversations WHERE id = ? AND user_id = ?; the messages of
\* the row go with it (foreign_keys = ON, ON DELETE CASCADE)
deleteConversation(d, conversationId, userId) ==
    LET hit == getConversationById(d, conversationId, userId) # None
        Kept(m) == m.conversation_id # conversationId
        d2 == IF hit
              THEN [d EXCEPT !.conversations = [i \in DOMAIN @ \ {conversationId} |-> @[i]],
                             !.messages = SelectSeq(@, Kept)]
              ELSE d
    IN [db |-> d2, ret |-> hit]

\* addMessage without the ownership check
addMessageUnscoped(d, t, conversationId, userId, role, content) ==
    IF conversationId \notin DOMAIN d.conversations THEN [db |-> d, ret |-> None]
    ELSE LET id == d.msgSeq + 1
             row == [id |-> id, conversation_id |-> conversationId, role |-> role,
                     content |-> content, created_at |-> t]
         IN [db |-> [d EXCEPT !.messages = Append(@, row),
                              !.msgSeq = id,
                              !.conversations[conversationId].updated_at = t],
             ret |-> Some([id |-> id, conversation_id |-> conversationId,
                           role |-> role, content |-> content])]

\* addMessage without the lookup of the conversation: the row is inserted
\* whether or not the conversation is there
addMessageUnchecked(d, t, conversationId, userId, role, content) ==
    LET id == d.msgSeq + 1
        row == [id |-> id, conversation_id |-> conversationId, role |-> role,
                content |-> content, created_at |-> t]
        d2 == [d EXCEPT !.messages = Append(@, row), !.msgSeq = id]
    IN [db |-> IF conversationId \in DOMAIN d.conversations
               THEN [d2 EXCEPT !.conversations[conversationId].updated_at = t]
               ELSE d2,
        ret |-> Some([id |-> id, conversation_id |-> conversationId,
                      role |-> role, content |-> content])]

\* addMessage: ownership check, INSERT INTO messages, bump updated_at
addMessage(d, t, conversationId, userId, role, content) ==
    LET conversation == getConversationById(d, conversationId, userId) IN
    IF conversation = None THEN [db |-> d, ret |-> None]
    ELSE LET id == d.msgSeq + 1
             row == [id |-> id, conversation_id |-> conversationId, role |-> role,
                     content |-> content, created_at |-> t]
         IN [db |-> [d EXCEPT !.messages = Append(@, row),
                              !.msgSeq = id,
                              !.conversations[conversationId].updated_at = t],
             ret |-> Some([id |-> id, conversation_id |-> conversationId,
                           role |-> role, content |-> content])]

\* firstMessage.substring(0, 50) + (firstMessage.length > 50 ? '...' : '')
TitleFor(firstMessage) ==
    SubSeq(firstMessage, 1, IF Len(firstMessage) < TitleLimit
                            THEN Len(firstMessage) ELSE TitleLimit)
    \o (IF Len(firstMessage) > TitleLimit THEN Ellipsis ELSE <<>>)

autoGenerateTitle(d, t, conversationId, userId, firstMessage) ==
    updateConversationTitle(d, t, conversationId, userId, TitleFor(firstMessage))

\* ------------------------------------------------------------------------
\* The users table and the credentials of local accounts
\* ------------------------------------------------------------------------
MaxRegs == 2        \* registration requests per behaviour
MaxUsers == 4       \* user rows ever inserted

\* routes/auth.js  password.length < 8
MinPassword == 8

Regs == 1..MaxRegs

\* Email addresses: of the two users the table starts with, and a new one
EmailOne == "one@x"
EmailTwo == "two@x"
EmailNew == "new@x"
RegEmails == {EmailOne, EmailNew}

PassOne == Rep("p", MinPassword)
PassTwo == Rep("q", MinPassword)
PassShort == Rep("p", MinPassword - 1)
Passwords == {PassOne, PassTwo, PassShort}

Providers == {"google", "github"}
OauthIds == {"g1"}

\* bcrypt.hash / bcrypt.compare: the hash is not the password, and compare
\* accepts exactly the password the hash was made from
hashPassword(password) == <<"$", "2">> \o password
comparePassword(password, hash) == hash = hashPassword(password)

UserRow(id, email, passwordHash, provider, oauthId) ==
    [id |-> id, email |-> email, password_hash |-> passwordHash,
     auth_provider |-> provider, oauth_id |-> oauthId]

\* The table the chat pipeline runs against: one local account per id of
\* UserIds.  rows: the rows by id; seq: the AUTOINCREMENT sequence.
InitialUsers ==
    [rows |-> [i \in UserIds |->
                 IF i = 1
                 THEN UserRow(1, Some(EmailOne), Some(hashPassword(PassOne)), "local", None)
                 ELSE UserRow(i, Some(EmailTwo), Some(hashPassword(PassTwo)), "local", None)],
     seq |-> Cardinality(UserIds)]

\* email TEXT UNIQUE and UNIQUE(auth_provider, oauth_id): a NULL is equal
\* to nothing.  Would the table accept row in place of (or next to) the
\* rows it has under other ids?
UniqueOk(u, row) ==
    \A i \in DOMAIN u.rows \ {row.id} :
        /\ row.email # None => u.rows[i].email # row.email
        /\ row.oauth_id # None
           => ~(/\ u.rows[i].auth_provider = row.auth_provider
                /\ u.rows[i].oauth_id = row.oauth_id)

\* INSERT INTO users: threw is TRUE when a UNIQUE constraint refuses the row
InsertUser(u, email, passwordHash, provider, oauthId) ==
    LET id == u.seq + 1
        row == UserRow(id, email, passwordHash, provider, oauthId)
    IN IF UniqueOk(u, row)
       THEN [users |-> [rows |-> [i \in DOMAIN u.rows \cup {id} |->
                                     IF i = id THEN row ELSE u.rows[i]],
                        seq |-> id],
             threw |-> FALSE, ret |-> Some(id)]
       ELSE [users |-> u, threw |-> TRUE, ret |-> None]

\* INSERT INTO users without the UNIQUE constraints
InsertUserUnchecked(u, email, passwordHash, provider, oauthId) ==
    LET id == u.seq + 1
        row == UserRow(id, email, passwordHash, provider, oauthId)
    IN [users |-> [rows |-> [i \in DOMAIN u.rows \cup {id} |->
                                IF i = id THEN row ELSE u.rows[i]],
                   seq |-> id],
        threw |-> FALSE, ret |-> Some(id)]

\* SELECT * FROM users WHERE email = ?
getUserByEmail(u, email) ==
    {u.rows[i] : i \in {j \in DOMAIN u.rows : u.rows[j].email = Some(email)}}

emailExists(u, email) == getUserByEmail(u, email) # None

\* createUser without the UNIQUE constraints of the table
createUserUnchecked(u, email, passwordHash) ==
    InsertUserUnchecked(u, Some(email), Some(passwordHash), "local", None)

\* createUser: INSERT ... VALUES (?, ?, ?, 'local')
createUser(u, email, passwordHash) ==
    InsertUser(u, Some(email), Some(passwordHash), "local", None)

\* SELECT * FROM users WHERE auth_provider = ? AND oauth_id = ?
getUserByOAuth(u, provider, oauthId) ==
    {u.rows[i] : i \in {j \in DOMAIN u.rows :
                          /\ u.rows[j].auth_provider = provider
                          /\ u.rows[j].oauth_id = Some(oauthId)}}

\* findOrCreateOAuthUser whose account-linking UPDATE also clears the
\* password
findOrCreateOAuthUserDropsPassword(u, provider, oauthId, email) ==
    LET byOAuth == getUserByOAuth(u, provider, oauthId)
        byEmail == IF email = None THEN None ELSE getUserByEmail(u, The(email))
    IN IF byOAuth # None
       THEN [users |-> u, threw |-> FALSE, ret |-> Some(The(byOAuth).id)]
       ELSE IF byEmail # None
            THEN [users |-> [u EXCEPT !.rows[The(byEmail).id] =
                                         [@ EXCEPT !.auth_provider = provider,
                                                   !.oauth_id = Some(oauthId),
                                                   !.password_hash = None]],
                  threw |-> FALSE, ret |-> Some(The(byEmail).id)]
            ELSE InsertUser(u, email, None, provider, Some(oauthId))

\* findOrCreateOAuthUser: the user with this provider and external id, or
\* else the user with this email, who is given the provider and external
\* id, or else a new user without a password
findOrCreateOAuthUser(u, provider, oauthId, email) ==
    LET byOAuth == getUserByOAuth(u, provider, oauthId)
        byEmail == IF email = None THEN None ELSE getUserByEmail(u, The(email))
    IN IF byOAuth # None
       THEN [users |-> u, threw |-> FALSE, ret |-> Some(The(byOAuth).id)]
       ELSE IF byEmail # None
            THEN LET row == [The(byEmail) EXCEPT !.auth_provider = provider,
                                                 !.oauth_id = Some(oauthId)]
                 IN IF UniqueOk(u, row)
                    THEN [users |-> [u EXCEPT !.rows[row.id] = row],
                          threw |-> FALSE, ret |-> Some(row.id)]
                    ELSE [users |-> u, threw |-> TRUE, ret |-> None]
            ELSE InsertUser(u, email, None, provider, Some(oauthId))

\* A registration request before it arrives.  phase: "new", then
\* "rejected" (400), or "hashing" (awaiting bcrypt) and then "registered"
\* or "failed" (500).
NewReg == [phase |-> "new", email |-> None, password |-> None, res |-> None]

\* ------------------------------------------------------------------------
\* The browser's AuthManager and the routes it calls
\* ------------------------------------------------------------------------
MaxFetches == 5     \* requests one AuthManager sends

\* The tokens the browser can hold.  A refresh token carries type:
\* 'refresh' in its payload; an access token carries no type, written
\* "access" here.
generateAccessToken(user) == [userId |-> user.id, valid |-> TRUE, type |-> "access"]
generateRefreshToken(user) == [userId |-> user.id, valid |-> TRUE, type |-> "refresh"]

AccessTokens ==
    {generateAccessToken([id |-> 1]),
     [userId |-> 1, valid |-> FALSE, type |-> "access"],
     generateAccessToken([id |-> 3])}

RefreshTokens ==
    {generateRefreshToken([id |-> 1]),
     [userId |-> 1, valid |-> FALSE, type |-> "refresh"],
     generateRefreshToken([id |-> 3]),
     generateAccessToken([id |-> 1])}

\* localStorage['wright_auth'] as the page finds it: absent, or what
\* setTokens wrote on an earlier visit (both tokens, since expired or not)
StoredAuths ==
    {[accessToken |-> Some(a), refreshToken |-> Some(r)] :
        a \in AccessTokens, r \in RefreshTokens}

\* ?accessToken=..&refreshToken=.. of the OAuth redirect
UrlAuths ==
    {[accessToken |-> generateAccessToken([id |-> 1]),
      refreshToken |-> generateRefreshToken([id |-> 1])]}

\* The credentials typed into the login form
LoginForms ==
    {[email |-> EmailOne, password |-> PassOne],
     [email |-> EmailOne, password |-> PassTwo]}

\* GET /api/auth/me with Authorization: Bearer <accessToken>
MeRoute(accessToken) ==
    LET a == authenticateToken([kind |-> "bearer", token |-> accessToken]) IN
    IF a.ok THEN [status |-> 200, user |-> Some(a.user)]
    ELSE [status |-> a.status, user |-> None]

\* A refresh route that signs the new access token already expired
RefreshRouteExpired(refreshToken) ==
    IF refreshToken = None THEN [status |-> 400, accessToken |-> None]
    ELSE LET decoded == verifyToken(The(refreshToken)) IN
         IF decoded = None \/ The(refreshToken).type # "refresh"
         THEN [status |-> 403, accessToken |-> None]
         ELSE LET user == getUserById(The(decoded).userId) IN
              IF user = None THEN [status |-> 403, accessToken |-> None]
              ELSE [status |-> 200,
                    accessToken |-> Some([generateAccessToken(The(user))
                                            EXCEPT !.valid = FALSE])]

\* POST /api/auth/refresh with body {refreshToken}
RefreshRoute(refreshToken) ==
    IF refreshToken = None THEN [status |-> 400, accessToken |-> None]
    ELSE LET decoded == verifyToken(The(refreshToken)) IN
         IF decoded = None \/ The(refreshToken).type # "refresh"
         THEN [status |-> 403, accessToken |-> None]
         ELSE LET user == getUserById(The(decoded).userId) IN
              IF user = None THEN [status |-> 403, accessToken |-> None]
              ELSE [status |-> 200,
                    accessToken |-> Some(generateAccessToken(The(user)))]

\* new AuthManager() before its constructor has run.  inflight: the
\* fetches awaiting their response, each with the number of token
\* refreshes its chain of calls has made; sent: how many were sent;
\* answered: the last response delivered; loggedOut: clearTokens has run
\* and login() has not been called since.
NewAuthManager ==
    [constructed |-> FALSE,
     accessToken |-> None,
     refreshToken |-> None,
     user |-> None,
     localStorage |-> None,
     inflight |-> {},
     sent |-> 0,
     answered |-> None,
     loggedOut |-> FALSE]

Fetch(m, kind, accessToken, refreshToken, form, refreshes) ==
    [m EXCEPT !.sent = @ + 1,
              !.inflight = @ \cup {[id |-> m.sent + 1, kind |-> kind,
                                    accessToken |-> accessToken,
                                    refreshToken |-> refreshToken,
                                    form |-> form,
                                    refreshes |-> refreshes]}]

clearTokens(m) ==
    [m EXCEPT !.accessToken = None, !.refreshToken = None, !.user = None,
              !.localStorage = None, !.loggedOut = TRUE]

\* fetchUser up to its await
fetchUser(m, refreshes) ==
    IF m.accessToken = None THEN m
    ELSE Fetch(m, "me", m.accessToken, None, None, refreshes)

\* refreshAccessToken up to its await
refreshAccessToken(m, refreshes) ==
    IF m.refreshToken = None THEN clearTokens(m)
    ELSE Fetch(m, "refresh", None, m.refreshToken, None, refreshes + 1)

setTokens(m, accessToken, refreshToken) ==
    fetchUser([m EXCEPT !.accessToken = Some(accessToken),
                        !.refreshToken = Some(refreshToken),
                        !.localStorage = Some([accessToken |-> Some(accessToken),
                                               refreshToken |-> Some(refreshToken)])],
              0)

loadTokens(m) ==
    IF m.localStorage = None THEN m
    ELSE fetchUser([m EXCEPT !.accessToken = The(m.localStorage).accessToken,
                             !.refreshToken = The(m.localStorage).refreshToken],
                   0)

RECURSIVE Concat(_)
Concat(texts) == IF texts = <<>> THEN <<>> ELSE Head(texts) \o Concat(Tail(texts))

\* ------------------------------------------------------------------------
\* The browser's WrightChat and the event stream it reads
\* ------------------------------------------------------------------------
MaxSends == 2       \* messages one WrightChat sends

\* What POST /api/chat writes for a gateway stream of n text events that
\* ends with its final message (done) or with an error: the events, in
\* the order of the res.write calls.  conversationId is the handler's
\* actualConversationId.
ServerStream(n, done, conversationId) ==
    LET texts == [k \in 1..n |-> TokenAt(k)] IN
    [k \in 1..n |-> [type |-> "text", content |-> texts[k]]]
    \o <<IF done
         THEN [type |-> "done", message |-> Concat(texts),
               conversationId |-> conversationId]
         ELSE [type |-> "error", error |-> "gateway"]>>

\* The characters on the wire, as far as the reader can tell them apart:
\* the prefix 'data: ' in two pieces, the JSON text of the k-th event in
\* three (its opening brace, its body, its closing brace), and the newline.
Sym(c, k) == [ch |-> c, ev |-> k]
Newline == Sym("\n", 0)

\* `data: ${JSON.stringify(event)}\n\n`
Frame(k) ==
    <<Sym("dat", 0), Sym("a: ", 0),
      Sym("{", 0), Sym("json", k), Sym("}", 0),
      Newline, Newline>>

RECURSIVE Wire(_)
Wire(n) == IF n = 0 THEN <<>> ELSE Wire(n - 1) \o Frame(n)

\* chunk.split('\n')
RECURSIVE Split(_)
Split(chunk) ==
    IF \A i \in DOMAIN chunk : chunk[i] # Newline THEN <<chunk>>
    ELSE LET i == CHOOSE j \in DOMAIN chunk :
                    /\ chunk[j] = Newline
                    /\ \A h \in 1..(j - 1) : chunk[h] # Newline
         IN <<SubSeq(chunk, 1, i - 1)>> \o Split(SubSeq(chunk, i + 1, Len(chunk)))

\* line.startsWith('data: ')
StartsWithData(line) ==
    /\ Len(line) >= 2
    /\ line[1] = Sym("dat", 0)
    /\ line[2] = Sym("a: ", 0)

\* line.slice(6)
Slice6(line) == SubSeq(line, 3, Len(line))

\* JSON.parse: the index of the event whose JSON text this is, or None
\* when the text is not one whole JSON value (JSON.parse throws)
JSONParse(text) ==
    IF /\ Len(text) = 3
       /\ text[1] = Sym("{", 0)
       /\ text[2].ch = "json"
       /\ text[3] = Sym("}", 0)
    THEN Some(text[2].ev)
    ELSE None

\* new WrightChat().  streams: one entry per streamResponse call, in the
\* order of the calls; fresh: newChat has run and sendMessage has not
\* been called since.
NewWrightChat ==
    [messages |-> <<>>,
     currentConversationId |-> None,
     streams |-> <<>>,
     fresh |-> FALSE]

\* streamResponse once the response has arrived: events is what the server
\* writes, unread the part of it the reader has not returned yet, handled
\* the events that got through JSON.parse, in the order they did
NewStream(events) ==
    [events |-> events,
     unread |-> Wire(Len(events)),
     accumulatedText |-> <<>>,
     handled |-> <<>>]

\* The body of the try block for the parsed event number k of stream i
HandleData(c, i, k) ==
    LET s == c.streams[i]
        data == s.events[k]
        c1 == [c EXCEPT !.streams[i].handled = Append(@, k)]
    IN IF data.type = "text"
       THEN [c1 EXCEPT !.streams[i].accumulatedText = @ \o data.content]
       ELSE IF data.type = "done"
       THEN LET fullText == data.message
                c2 == [c1 EXCEPT !.messages = Append(@, Msg("assistant", fullText))]
            IN IF data.conversationId # None /\ c2.currentConversationId = None
               THEN [c2 EXCEPT !.currentConversationId = data.conversationId]
               ELSE c2
       ELSE c1

\* The body of `for (const line of lines)` for one line
HandleLine(c, i, line) ==
    IF StartsWithData(line)
    THEN LET k == JSONParse(Slice6(line)) IN
         IF k = None THEN c ELSE HandleData(c, i, The(k))
    ELSE c

RECURSIVE HandleLines(_, _, _)
HandleLines(c, i, lines) ==
    IF lines = <<>> THEN c
    ELSE HandleLines(HandleLine(c, i, Head(lines)), i, Tail(lines))

newChat(c) ==
    [c EXCEPT !.messages = <<>>, !.currentConversationId = None, !.fresh = TRUE]

\* ------------------------------------------------------------------------
\* State
\* ------------------------------------------------------------------------
VARIABLES
    db,     \* the database
    now,    \* CURRENT_TIMESTAMP, in seconds
    req,    \* per chat request: the closure state of the handler, the
            \* response object and the gateway stream
    last,   \* the last response of a conversation-management route
    users,  \* the users table
    auth,   \* the registrations in flight and the last sign-in answered
    authManager,    \* the browser's AuthManager and its requests in flight
    wrightChat      \* the browser's WrightChat and the response it is reading

vars == <<db, now, req, last, users, auth, authManager, wrightChat>>

\* A chat request before it arrives.  phase: "new", then "rejected" (400),
\* "failed" (500), or "streaming" and then "done" or "errored".
NewReq ==
    [phase |-> "new",
     authorization |-> [kind |-> "absent"],   \* req.headers['authorization']
     user |-> None,                  \* req.user
     messages |-> None,              \* req.body.messages
     conversationId |-> None,        \* req.body.conversationId
     actualConversationId |-> None,
     fullResponse |-> <<>>,
     out |-> <<>>,                   \* the chunks written with res.write
     ended |-> FALSE,                \* res.end() was called
     json |-> None,                  \* res.status(..).json(..)
     gwSent |-> <<>>,                \* the text events the gateway emitted
     created |-> None,               \* what createConversation returned
     userMsg |-> None,               \* what addMessage(.., 'user', ..) returned
     asstMsg |-> None,               \* what addMessage(.., 'assistant', ..) returned
     storeThrew |-> FALSE,           \* a store call of this request threw
     gwThrew |-> FALSE,              \* anthropic.messages.stream(..) threw
     disconnectedAt |-> None]        \* the client went away after this many chunks

Init ==
    /\ db = EmptyDb
    /\ now = 0
    /\ req = [r \in Reqs |-> NewReq]
    /\ last = None
    /\ users = InitialUsers
    /\ auth = [regs |-> [k \in Regs |-> NewReg], last |-> None]
    /\ authManager = NewAuthManager
    /\ wrightChat = NewWrightChat

\* ------------------------------------------------------------------------
\* POST /api/chat
\* ------------------------------------------------------------------------
IsUser(m) == m.role = "user"

\* messages.filter(m => m.role === 'user').pop()
LastUserMessage(messages) ==
    LET fromUser == SelectSeq(messages, IsUser) IN
    IF fromUser = <<>> THEN None ELSE Some(fromUser[Len(fromUser)])

\* The store calls step 2 makes, in order
Step2Calls(user, conversationId, messages) ==
    IF user # None /\ LastUserMessage(messages) # None
    THEN (IF conversationId = None THEN {"create", "title"} ELSE {}) \cup {"add"}
    ELSE {}

\* Step 2 starting a fresh conversation whenever the supplied id is not a
\* conversation of the user
SaveUserMessageFresh(d, t, q, failAt) ==
    LET userId == The(q.user).id
        content == The(LastUserMessage(The(q.messages))).content
        fresh == \/ q.conversationId = None
                 \/ getConversationById(d, The(q.conversationId), userId) = None
        c == createConversation(d, t, userId, DefaultTitle)
        actual == IF fresh THEN Some(The(c.ret).id) ELSE q.conversationId
        d2 == IF fresh THEN autoGenerateTitle(c.db, t, The(actual), userId, content).db ELSE d
        a == addMessage(d2, t, The(actual), userId, "user", content)
    IN [db |-> IF failAt = "none" THEN a.db ELSE d,
        req |-> [q EXCEPT !.actualConversationId = actual,
                          !.created = IF fresh THEN c.ret ELSE None,
                          !.userMsg = IF failAt = "none" THEN a.ret ELSE None,
                          !.storeThrew = failAt # "none"]]

\* Step 2 deriving the title from the user message on every turn
SaveUserMessageRetitles(d, t, q, failAt) ==
    LET userId == The(q.user).id
        content == The(LastUserMessage(The(q.messages))).content
        fresh == q.conversationId = None
        c == createConversation(d, t, userId, DefaultTitle)
        d1 == IF fresh /\ failAt # "create" THEN c.db ELSE d
        actual == IF fresh /\ failAt # "create" THEN Some(The(c.ret).id)
                  ELSE q.conversationId
        d2 == IF actual # None /\ failAt \notin {"create", "title"}
              THEN autoGenerateTitle(d1, t, The(actual), userId, content).db
              ELSE d1
        a == addMessage(d2, t, The(actual), userId, "user", content)
        d3 == IF failAt = "none" THEN a.db ELSE d2
    IN [db |-> d3,
        req |-> [q EXCEPT !.actualConversationId = actual,
                          !.created = IF fresh /\ failAt # "create" THEN c.ret ELSE None,
                          !.userMsg = IF failAt = "none" THEN a.ret ELSE None,
                          !.storeThrew = failAt # "none"]]

\* Step 2 of the handler: create and title a conversation when no id came
\* with the request, then store the user's message.  failAt names the store
\* call that throws ("none": no call throws); a call that throws changes
\* nothing, the calls before it have taken effect.
SaveUserMessage(d, t, q, failAt) ==
    LET userId == The(q.user).id
        content == The(LastUserMessage(The(q.messages))).content
        fresh == q.conversationId = None
        c == createConversation(d, t, userId, DefaultTitle)
        d1 == IF fresh /\ failAt # "create" THEN c.db ELSE d
        actual == IF fresh /\ failAt # "create" THEN Some(The(c.ret).id)
                  ELSE q.conversationId
        d2 == IF fresh /\ failAt \notin {"create", "title"}
              THEN autoGenerateTitle(d1, t, The(actual), userId, content).db
              ELSE d1
        a == addMessage(d2, t, The(actual), userId, "user", content)
        d3 == IF failAt = "none" THEN a.db ELSE d2
    IN [db |-> d3,
        req |-> [q EXCEPT !.actualConversationId = actual,
                          !.created = IF fresh /\ failAt # "create" THEN c.ret ELSE None,
                          !.userMsg = IF failAt = "none" THEN a.ret ELSE None,
                          !.storeThrew = failAt # "none"]]

\* The handler from the arrival of the request to the registration of the
\* stream listeners (no gateway event is delivered before that).  failAt
\* names the call that throws: a store call of step 2, or "stream", the
\* call of anthropic.messages.stream in step 3; the catch block answers 500.
ChatHandler(d, t, q0, h, messages, conversationId, failAt) ==
    LET q == [q0 EXCEPT !.authorization = h,
                        !.user = optionalAuth(h),
                        !.messages = messages,
                        !.conversationId = conversationId]
    IN IF messages = None
       THEN [db |-> d,
             req |-> [q EXCEPT !.phase = "rejected",
                               !.json = Some([status |-> 400,
                                              error |-> "Messages array is required"])]]
       ELSE LET s == IF q.user # None /\ LastUserMessage(The(messages)) # None
                     THEN SaveUserMessage(d, t, q, IF failAt = "stream" THEN "none" ELSE failAt)
                     ELSE [db |-> d,
                           req |-> [q EXCEPT !.actualConversationId = conversationId]]
            IN IF s.req.storeThrew
               THEN [db |-> s.db,
                     req |-> [s.req EXCEPT !.phase = "failed",
                                           !.json = Some([status |-> 500,
                                                          error |-> "store"])]]
               ELSE IF failAt = "stream"
               THEN [db |-> s.db,
                     req |-> [s.req EXCEPT !.phase = "failed",
                                           !.gwThrew = TRUE,
                                           !.json = Some([status |-> 500,
                                                          error |-> "gateway"])]]
               ELSE [db |-> s.db, req |-> [s.req EXCEPT !.phase = "streaming"]]

\* stream.on('text') writing the text accumulated so far as the chunk
OnTextWritesAccumulated(q, text) ==
    [q EXCEPT !.fullResponse = @ \o text,
              !.out = Append(@, [type |-> "text", content |-> q.fullResponse \o text])]

\* stream.on('text') with fullResponse = text in place of fullResponse += text
OnTextAssigns(q, text) ==
    [q EXCEPT !.fullResponse = text,
              !.out = Append(@, [type |-> "text", content |-> text])]

\* stream.on('text') putting the chunk in front of those written before
OnTextPrepends(q, text) ==
    [q EXCEPT !.fullResponse = @ \o text,
              !.out = <<[type |-> "text", content |-> text]>> \o @]

\* stream.on('text') with fullResponse declared outside the handler, one
\* accumulator for all requests: its value is the longest text accumulated
\* so far by any of them
OnTextSharedAccumulator(q, text) ==
    LET longest == CHOOSE r \in Reqs :
                       \A o \in Reqs : Len(req[o].fullResponse) <= Len(req[r].fullResponse)
    IN [q EXCEPT !.fullResponse = req[longest].fullResponse \o text,
                 !.out = Append(@, [type |-> "text", content |-> text])]

\* stream.on('text')
OnText(q, text) ==
    [q EXCEPT !.fullResponse = @ \o text,
              !.out = Append(@, [type |-> "text", content |-> text])]

\* stream.on('error') without res.end()
OnErrorLeavesOpen(q, error) ==
    [q EXCEPT !.out = Append(@, [type |-> "error", error |-> error]),
              !.phase = "errored"]

\* stream.on('error') answering with a status code as the catch block does
OnErrorSendsStatus(q, error) ==
    [q EXCEPT !.json = Some([status |-> 500, error |-> error]),
              !.ended = TRUE,
              !.phase = "errored"]

\* stream.on('error')
OnError(q, error) ==
    [q EXCEPT !.out = Append(@, [type |-> "error", error |-> error]),
              !.ended = TRUE,
              !.phase = "errored"]

\* stream.on('message') writing the done event before it stores the
\* assistant message, so that an exception of the store call is reported
\* (by the error listener) after the done event
OnMessageWritesFirst(d, t, q, message, throws) ==
    LET save == q.user # None /\ q.actualConversationId # None
        a == IF save
             THEN addMessage(d, t, The(q.actualConversationId), The(q.user).id,
                             "assistant", q.fullResponse)
             ELSE [db |-> d, ret |-> None]
        written == [q EXCEPT !.out = Append(@, [type |-> "done",
                                                message |-> message,
                                                conversationId |-> q.actualConversationId])]
    IN IF save /\ throws
       THEN [db |-> d, req |-> [written EXCEPT !.storeThrew = TRUE,
                                               !.out = Append(@, [type |-> "error", error |-> "store"]),
                                               !.ended = TRUE,
                                               !.phase = "errored"]]
       ELSE [db |-> a.db,
             req |-> [written EXCEPT !.asstMsg = a.ret, !.ended = TRUE, !.phase = "done"]]

\* stream.on('message').  throws: the addMessage call throws; the exception
\* leaves the listener before anything is written, and the stream object
\* that was running the listener reports it to its 'error' listeners.
OnMessage(d, t, q, message, throws) ==
    LET save == q.user # None /\ q.actualConversationId # None
        a == IF save
             THEN addMessage(d, t, The(q.actualConversationId), The(q.user).id,
                             "assistant", q.fullResponse)
             ELSE [db |-> d, ret |-> None]
    IN IF save /\ throws
       THEN [db |-> d, req |-> OnError([q EXCEPT !.storeThrew = TRUE], "store")]
       ELSE [db |-> a.db,
             req |-> [q EXCEPT !.asstMsg = a.ret,
                               !.out = Append(@, [type |-> "done",
                                                  message |-> message,
                                                  conversationId |-> q.actualConversationId]),
                               !.ended = TRUE,
                               !.phase = "done"]]

\* A chat request arrives: optionalAuth, then the handler up to the point
\* where it waits for gateway events.
ChatRequest(r) ==
    /\ last = None
    /\ req[r].phase = "new"
    /\ IF r = 1 THEN TRUE ELSE req[r - 1].phase # "new"
    /\ \E h \in Headers, messages \in Histories, conversationId \in {None} \cup {Some(i) : i \in ConvIds} :
         LET calls == IF messages = None THEN {}
                      ELSE Step2Calls(optionalAuth(h), conversationId, The(messages))
             throwers == IF messages = None THEN {} ELSE calls \cup {"stream"}
         IN \E failAt \in {"none"} \cup throwers :
              /\ ("create" \in calls /\ failAt # "create") => db.convSeq < MaxConvs
              /\ LET o == ChatHandler(db, now, req[r], h, messages, conversationId, failAt)
                 IN /\ db' = o.db
                    /\ req' = [req EXCEPT ![r] = o.req]
    /\ UNCHANGED <<now, last, users, auth, authManager, wrightChat>>

\* The gateway emits a text event on the stream of request r.
GatewayText(r) ==
    /\ last = None
    /\ req[r].phase = "streaming"
    /\ Len(req[r].gwSent) < MaxTokens
    /\ LET text == TokenAt(Len(req[r].gwSent) + 1)
       IN req' = [req EXCEPT ![r] = [OnText(req[r], text) EXCEPT !.gwSent = Append(@, text)]]
    /\ UNCHANGED <<db, now, last, users, auth, authManager, wrightChat>>

\* The gateway ends the stream of request r with its final message.
GatewayMessage(r) ==
    /\ last = None
    /\ req[r].phase = "streaming"
    /\ \E throws \in BOOLEAN :
         /\ throws => (req[r].user # None /\ req[r].actualConversationId # None)
         /\ LET o == OnMessage(db, now, req[r], Concat(req[r].gwSent), throws)
            IN /\ db' = o.db
               /\ req' = [req EXCEPT ![r] = o.req]
    /\ UNCHANGED <<now, last, users, auth, authManager, wrightChat>>

\* The gateway ends the stream of request r with a failure.
GatewayError(r) ==
    /\ last = None
    /\ req[r].phase = "streaming"
    /\ req' = [req EXCEPT ![r] = OnError(req[r], "upstream")]
    /\ UNCHANGED <<db, now, last, users, auth, authManager, wrightChat>>

\* The client of request r closes the connection while the gateway stream
\* is running.  The handler registers no 'close' listener on req or res and
\* never aborts the stream: the three stream listeners stay as they are.
ClientDisconnect(r) ==
    /\ last = None
    /\ req[r].phase = "streaming"
    /\ req[r].disconnectedAt = None
    /\ req' = [req EXCEPT ![r].disconnectedAt = Some(Len(req[r].out))]
    /\ UNCHANGED <<db, now, last, users, auth, authManager, wrightChat>>

\* ------------------------------------------------------------------------
\* /api/conversations
\* ------------------------------------------------------------------------
NotFound == [status |-> 404, body |-> [error |-> "Conversation not found"]]
Ok(body) == [status |-> 200, body |-> body]

\* Each route: the outcomes (database after, response) it can have for an
\* authenticated user.

\* router.get('/')
ListRoute(d, userId) ==
    { [db |-> d, res |-> Ok([conversations |-> cs])] : cs \in getUserConversations(d, userId) }

\* router.post('/')
CreateRoute(d, t, userId, title) ==
    LET c == createConversation(d, t, userId, IF title = None THEN DefaultTitle ELSE The(title))
    IN { [db |-> c.db, res |-> Ok([conversation |-> c.ret])] }

\* router.get('/:id') recording the access in updated_at
GetRouteTouches(d, userId, id) ==
    { [db |-> IF c = None THEN d
              ELSE [d EXCEPT !.conversations[id].updated_at = @ + 1],
       res |-> IF c = None THEN NotFound ELSE Ok([conversation |-> The(c)])] :
        c \in getConversationWithMessages(d, id, userId) }

\* router.get('/:id')
GetRoute(d, userId, id) ==
    { [db |-> d, res |-> IF c = None THEN NotFound ELSE Ok([conversation |-> The(c)])] :
        c \in getConversationWithMessages(d, id, userId) }

\* router.put('/:id')
RenameRoute(d, t, userId, id, title) ==
    IF title = None
    THEN { [db |-> d, res |-> [status |-> 400, body |-> [error |-> "Title required"]]] }
    ELSE LET u == updateConversationTitle(d, t, id, userId, The(title))
         IN { [db |-> u.db,
               res |-> IF u.ret = None THEN NotFound ELSE Ok([conversation |-> The(u.ret)])] }

\* router.delete('/:id')
DeleteRoute(d, userId, id) ==
    LET x == deleteConversation(d, id, userId)
    IN { [db |-> x.db, res |-> IF x.ret THEN Ok([success |-> TRUE]) ELSE NotFound] }

Rejected(a) == [status |-> a.status, body |-> [error |-> a.error]]

\* router.use(authenticateToken), then the route.  The routes are
\* synchronous: one request is answered before the next is taken up.
\* outcomes[u]: what the route can do for the authenticated user u.
Managed(op, h, id, outcomes) ==
    LET a == authenticateToken(h) IN
    /\ last = None
    /\ IF ~a.ok
       THEN /\ last' = Some([op |-> op, authorization |-> h, user |-> None, id |-> None,
                          res |-> Rejected(a)])
            /\ db' = db
       ELSE \E o \in outcomes[a.user.id] :
              /\ last' = Some([op |-> op, authorization |-> h, user |-> Some(a.user.id),
                            id |-> id, res |-> o.res])
              /\ db' = o.db

\* The response of a conversation-management route has left the server.
\* A handler runs to completion: no other handler runs between a route and
\* its response, so every other action waits for last = None.
Respond ==
    /\ last # None
    /\ last' = None
    /\ UNCHANGED <<db, now, req, users, auth, authManager, wrightChat>>

OptTitles == {None} \cup {Some(x) : x \in NewTitles}

ListConversations ==
    /\ \E h \in Headers :
         LET Out == [u \in UserIds |-> ListRoute(db, u)] IN Managed("list", h, None, Out)
    /\ UNCHANGED <<now, req, users, auth, authManager, wrightChat>>

CreateConversation ==
    /\ db.convSeq < MaxConvs
    /\ \E h \in Headers, title \in OptTitles :
         LET Out == [u \in UserIds |-> CreateRoute(db, now, u, title)] IN Managed("create", h, None, Out)
    /\ UNCHANGED <<now, req, users, auth, authManager, wrightChat>>

GetConversation ==
    /\ \E h \in Headers, id \in ConvIds :
         LET Out == [u \in UserIds |-> GetRoute(db, u, id)] IN Managed("get", h, Some(id), Out)
    /\ UNCHANGED <<now, req, users, auth, authManager, wrightChat>>

RenameConversation ==
    /\ \E h \in Headers, id \in ConvIds, title \in OptTitles :
         LET Out == [u \in UserIds |-> RenameRoute(db, now, u, id, title)]
         IN Managed("rename", h, Some(id), Out)
    /\ UNCHANGED <<now, req, users, auth, authManager, wrightChat>>

DeleteConversation ==
    /\ \E h \in Headers, id \in ConvIds :
         LET Out == [u \in UserIds |-> DeleteRoute(db, u, id)] IN Managed("delete", h, Some(id), Out)
    /\ UNCHANGED <<now, req, users, auth, authManager, wrightChat>>

\* A second passes.
Tick ==
    /\ last = None
    /\ now < MaxClock
    /\ now' = now + 1
    /\ UNCHANGED <<db, req, last, users, auth, authManager, wrightChat>>

\* The chat pipeline: MaxReqs chat requests, their gateway streams
\* interleaved.
Next ==
    \/ \E r \in Reqs : ChatRequest(r)
    \/ \E r \in Reqs : GatewayText(r)
    \/ \E r \in Reqs : GatewayMessage(r)
    \/ \E r \in Reqs : GatewayError(r)
    \/ Tick

Spec == Init /\ [][Next]_vars

\* The conversation-management routes next to one chat request.
NextRoutes ==
    \/ ChatRequest(1)
    \/ GatewayMessage(1)
    \/ GatewayError(1)
    \/ ListConversations
    \/ CreateConversation
    \/ GetConversation
    \/ RenameConversation
    \/ DeleteConversation
    \/ Respond
    \/ Tick

SpecRoutes == Init /\ [][NextRoutes]_vars

\* One chat request whose client may go away in mid-stream.
NextCancel ==
    \/ ChatRequest(1)
    \/ GatewayText(1)
    \/ GatewayMessage(1)
    \/ GatewayError(1)
    \/ ClientDisconnect(1)
    \/ Tick

SpecCancel == Init /\ [][NextCancel]_vars

\* ------------------------------------------------------------------------
\* /api/auth: registration, local sign-in, OAuth sign-in
\* ------------------------------------------------------------------------
Refused(status, error) == Some([status |-> status, error |-> error, user |-> None])
Granted(id) == Some([status |-> 200, error |-> "", user |-> Some(id)])

OptEmails == {None} \cup {Some(e) : e \in RegEmails}
OptPasswords == {None} \cup {Some(p) : p \in Passwords}

\* POST /register up to `await hashPassword(password)`
RegisterBegin(k) ==
    /\ auth.regs[k].phase = "new"
    /\ IF k = 1 THEN TRUE ELSE auth.regs[k - 1].phase # "new"
    /\ \E email \in OptEmails, password \in OptPasswords :
         LET g == [auth.regs[k] EXCEPT !.email = email, !.password = password]
         IN auth' = [auth EXCEPT !.regs[k] =
              IF email = None \/ password = None
              THEN [g EXCEPT !.phase = "rejected",
                             !.res = Refused(400, "Email and password required")]
              ELSE IF Len(The(password)) < MinPassword
              THEN [g EXCEPT !.phase = "rejected",
                             !.res = Refused(400, "Password must be at least 8 characters")]
              ELSE IF emailExists(users, The(email))
              THEN [g EXCEPT !.phase = "rejected",
                             !.res = Refused(400, "Email already registered")]
              ELSE [g EXCEPT !.phase = "hashing"]]
    /\ UNCHANGED <<db, now, req, last, users, authManager, wrightChat>>

\* POST /register from the moment the hash is there: createUser, then the
\* response; an exception of the INSERT is answered 500
RegisterFinish(k) ==
    /\ auth.regs[k].phase = "hashing"
    /\ LET g == auth.regs[k]
           x == createUser(users, The(g.email), hashPassword(The(g.password)))
       IN /\ ~x.threw => users.seq < MaxUsers
          /\ users' = x.users
          /\ auth' = [auth EXCEPT !.regs[k] =
               IF x.threw
               THEN [g EXCEPT !.phase = "failed", !.res = Refused(500, "Registration failed")]
               ELSE [g EXCEPT !.phase = "registered", !.res = Granted(The(x.ret))]]
    /\ UNCHANGED <<db, now, req, last, authManager, wrightChat>>

\* POST /login
LoginRoute(u, email, password) ==
    IF email = None \/ password = None
    THEN Refused(400, "Email and password required")
    ELSE LET user == getUserByEmail(u, The(email)) IN
         IF user = None THEN Refused(401, "Invalid email or password")
         ELSE IF The(user).password_hash = None
         THEN Refused(401, "Please login with your social account")
         ELSE IF ~comparePassword(The(password), The(The(user).password_hash))
         THEN Refused(401, "Invalid email or password")
         ELSE Granted(The(user).id)

Login ==
    /\ \E email \in OptEmails, password \in OptPasswords :
         auth' = [auth EXCEPT !.last =
                    Some([op |-> "login", provider |-> "local", oauthId |-> None,
                          email |-> email, password |-> password,
                          res |-> LoginRoute(users, email, password)])]
    /\ UNCHANGED <<db, now, req, last, users, authManager, wrightChat>>

\* The verify callback of a passport strategy: findOrCreateOAuthUser with
\* the provider's name and the profile's id and first email
OAuthLogin ==
    /\ \E provider \in Providers, oauthId \in OauthIds, email \in OptEmails :
         LET x == findOrCreateOAuthUser(users, provider, oauthId, email)
         IN /\ x.users.seq > users.seq => users.seq < MaxUsers
            /\ users' = x.users
            /\ auth' = [auth EXCEPT !.last =
                          Some([op |-> "oauth", provider |-> provider,
                                oauthId |-> Some(oauthId),
                                email |-> email, password |-> None,
                                res |-> IF x.threw THEN Refused(500, "oauth")
                                        ELSE Granted(The(x.ret))])]
    /\ UNCHANGED <<db, now, req, last, authManager, wrightChat>>

\* The accounts: registrations, whose two halves interleave with
\* everything else, and sign-ins.
NextUsers ==
    \/ \E k \in Regs : RegisterBegin(k)
    \/ \E k \in Regs : RegisterFinish(k)
    \/ Login
    \/ OAuthLogin

SpecUsers == Init /\ [][NextUsers]_vars

\* ------------------------------------------------------------------------
\* The browser's AuthManager: its calls and the responses that reach it
\* ------------------------------------------------------------------------
\* The response to fetch f was delivered with this status (0: the fetch
\* rejected, a network error)
Answered(m, f, status) ==
    [m EXCEPT !.inflight = @ \ {f},
              !.answered = Some([fetch |-> f, status |-> status])]

\* new AuthManager(): checkUrlTokens, then loadTokens
Construct ==
    /\ ~authManager.constructed
    /\ \E stored \in {None} \cup {Some(x) : x \in StoredAuths},
          url \in {None} \cup {Some(x) : x \in UrlAuths} :
         LET m0 == [authManager EXCEPT !.constructed = TRUE,
                                       !.localStorage = stored]
             m1 == IF url = None THEN m0
                   ELSE setTokens(m0, The(url).accessToken, The(url).refreshToken)
         IN authManager' = loadTokens(m1)
    /\ UNCHANGED <<db, now, req, last, users, auth, wrightChat>>

\* fetchUser from the response of GET /api/auth/me on
MeResponse ==
    /\ \E f \in authManager.inflight, failed \in BOOLEAN :
         /\ f.kind = "me"
         /\ LET res == MeRoute(The(f.accessToken))
                m == Answered(authManager, f, IF failed THEN 0 ELSE res.status)
            IN authManager' =
                 IF failed THEN m
                 ELSE IF res.status = 200 THEN [m EXCEPT !.user = res.user]
                 ELSE IF res.status = 403 THEN refreshAccessToken(m, f.refreshes)
                 ELSE clearTokens(m)
    /\ authManager'.sent <= MaxFetches
    /\ UNCHANGED <<db, now, req, last, users, auth, wrightChat>>

\* refreshAccessToken from the response of POST /api/auth/refresh on
RefreshResponse ==
    /\ \E f \in authManager.inflight, failed \in BOOLEAN :
         /\ f.kind = "refresh"
         /\ LET res == RefreshRoute(f.refreshToken)
                m == Answered(authManager, f, IF failed THEN 0 ELSE res.status)
            IN authManager' =
                 IF failed THEN clearTokens(m)
                 ELSE IF res.status = 200
                 THEN fetchUser([m EXCEPT !.accessToken = res.accessToken,
                                          !.localStorage =
                                              Some([accessToken |-> res.accessToken,
                                                    refreshToken |-> m.refreshToken])],
                                f.refreshes)
                 ELSE clearTokens(m)
    /\ authManager'.sent <= MaxFetches
    /\ UNCHANGED <<db, now, req, last, users, auth, wrightChat>>

\* login(email, password) up to its await (register has the same shape)
LoginCall ==
    /\ authManager.constructed
    /\ authManager.sent < MaxFetches
    /\ \E form \in LoginForms :
         authManager' = Fetch([authManager EXCEPT !.loggedOut = FALSE],
                              "login", None, None, Some(form), 0)
    /\ UNCHANGED <<db, now, req, last, users, auth, wrightChat>>

\* login from the response of POST /api/auth/login on
LoginResponse ==
    /\ \E f \in authManager.inflight, failed \in BOOLEAN :
         /\ f.kind = "login"
         /\ LET res == The(LoginRoute(users, Some(The(f.form).email),
                                      Some(The(f.form).password)))
                m == Answered(authManager, f, IF failed THEN 0 ELSE res.status)
            IN authManager' =
                 IF failed \/ res.status # 200 THEN m
                 ELSE LET user == [id |-> The(res.user)] IN
                      [setTokens(m, generateAccessToken(user),
                                 generateRefreshToken(user))
                         EXCEPT !.user = Some(user)]
    /\ authManager'.sent <= MaxFetches
    /\ UNCHANGED <<db, now, req, last, users, auth, wrightChat>>

Logout ==
    /\ authManager.constructed
    /\ authManager' = clearTokens(authManager)
    /\ UNCHANGED <<db, now, req, last, users, auth, wrightChat>>

\* One page's AuthManager against the server: responses arrive in any
\* order, or fail, and the user logs in and out at any time.
NextClient ==
    \/ Construct
    \/ MeResponse
    \/ RefreshResponse
    \/ LoginCall
    \/ LoginResponse
    \/ Logout

SpecClient == Init /\ [][NextClient]_vars

\* ------------------------------------------------------------------------
\* The browser's WrightChat: its calls and the chunks that reach it
\* ------------------------------------------------------------------------
\* sendMessage, and streamResponse up to its first reader.read(): the
\* request fails (streamResponse throws), or the server answers with an
\* event stream.  The done event carries the id the request supplied, or,
\* when it supplied none, the id of the conversation created for the
\* principal (none for an anonymous request).
SendMessage ==
    /\ Len(wrightChat.streams) < MaxSends
    /\ \E content \in {ShortA}, ok \in BOOLEAN, n \in 1..MaxTokens,
          done \in BOOLEAN, created \in {None, Some(1)} :
         LET c == [wrightChat EXCEPT !.messages = Append(@, Msg("user", content)),
                                     !.fresh = FALSE]
             conversationId == IF c.currentConversationId # None
                               THEN c.currentConversationId ELSE created
             events == IF ok THEN ServerStream(n, done, conversationId) ELSE <<>>
         IN wrightChat' = [c EXCEPT !.streams = Append(@, NewStream(events))]
    /\ UNCHANGED <<db, now, req, last, users, auth, authManager>>

\* One turn of the reader loop of stream i: reader.read() returns the next
\* n characters, and the loop body handles them
ReadChunk(i) ==
    /\ i \in DOMAIN wrightChat.streams
    /\ wrightChat.streams[i].unread # <<>>
    /\ \E n \in 1..Len(wrightChat.streams[i].unread) :
         LET unread == wrightChat.streams[i].unread
             chunk == SubSeq(unread, 1, n)
             c == [wrightChat EXCEPT !.streams[i].unread =
                                         SubSeq(unread, n + 1, Len(unread))]
         IN wrightChat' = HandleLines(c, i, Split(chunk))
    /\ UNCHANGED <<db, now, req, last, users, auth, authManager>>

NewChat ==
    /\ wrightChat' = newChat(wrightChat)
    /\ UNCHANGED <<db, now, req, last, users, auth, authManager>>

\* One page's WrightChat: the user sends messages and starts new chats
\* while the responses arrive, cut into chunks at any place.
NextChat ==
    \/ SendMessage
    \/ \E i \in 1..MaxSends : ReadChunk(i)
    \/ NewChat

SpecChat == Init /\ [][NextChat]_vars

\* ------------------------------------------------------------------------
\* Properties
\* ------------------------------------------------------------------------
\* Conversation id is a row of user u (read off the table itself)
Owns(d, u, id) ==
    \E i \in DOMAIN d.conversations : i = id /\ d.conversations[i].user_id = u

HasUserMessage(q) ==
    /\ q.messages # None
    /\ \E i \in DOMAIN The(q.messages) : The(q.messages)[i].role = "user"

FirstUserMessage(q) ==
    LET ms == The(q.messages)
        i == CHOOSE k \in DOMAIN ms :
                 ms[k].role = "user" /\ \A j \in 1..(k - 1) : ms[j].role # "user"
    IN ms[i].content

TriggeringMessage(q) ==
    LET ms == The(q.messages)
        i == CHOOSE k \in DOMAIN ms :
                 ms[k].role = "user" /\ \A j \in (k + 1)..Len(ms) : ms[j].role # "user"
    IN ms[i].content

\* The title the specification gives a conversation opened with text m
SpecTitle(m) == IF Len(m) > TitleLimit THEN SubSeq(m, 1, TitleLimit) \o Ellipsis ELSE m

IsText(e) == e.type = "text"
IsTerminal(e) == e.type \in {"done", "error"}

RECURSIVE ContentOf(_)
ContentOf(events) ==
    IF events = <<>> THEN <<>> ELSE Head(events).content \o ContentOf(Tail(events))

\* The text events written to the transport of q, concatenated in order
TextOut(q) == ContentOf(SelectSeq(q.out, IsText))

Roles(rows) == [i \in DOMAIN rows |-> rows[i].role]

\* The header resolves to no principal
NoPrincipal(h) ==
    \/ h.kind # "bearer"
    \/ ~h.token.valid
    \/ h.token.userId \notin UserIds

\* C1: a completed chat request of an authenticated principal with a user
\* message in its history and no conversation id has created a conversation
\* of the principal whose title is the first 50 characters of the FIRST
\* user message of the history (plus '...' iff it is longer), holding
\* exactly a user message and then an assistant message.
C1_TitleFromFirstUserMessage ==
    \A r \in Reqs :
        LET q == req[r] IN
        (q.phase = "done" /\ q.user # None /\ q.conversationId = None /\ HasUserMessage(q))
        => /\ q.created # None
           /\ Owns(db, The(q.user).id, The(q.created).id)
           /\ db.conversations[The(q.created).id].title = SpecTitle(FirstUserMessage(q))
           /\ Roles(MessagesOf(db, The(q.created).id)) = <<"user", "assistant">>

\* C2: no step of a chat request whose credential resolves to no principal
\* (its arrival, a text event, the completion, a failure) changes the rows
\* of the conversations or of the messages table.
C2_AnonymousWritesNothing ==
    [][\A r \in Reqs :
         (req'[r] # req[r] /\ NoPrincipal(req'[r].authorization))
         => (db'.conversations = db.conversations /\ db'.messages = db.messages)]_vars

C2_Witness ==
    \E r \in Reqs :
        /\ req[r].phase = "done"
        /\ req[r].authorization.kind = "bearer"
        /\ NoPrincipal(req[r].authorization)
        /\ HasUserMessage(req[r])
        /\ req[r].conversationId # None
        /\ The(req[r].conversationId) \in DOMAIN db.conversations
        /\ Len(req[r].gwSent) > 0

StepActor ==
    IF last = None /\ last' # None THEN The(last').user
    ELSE IF \E r \in Reqs : req'[r] # req[r]
         THEN LET r == CHOOSE x \in Reqs : req'[x] # req[x]
              IN IF req'[r].user = None THEN None ELSE Some(The(req'[r].user).id)
         ELSE None

\* C4: a step leaves every conversation of every user other than the one
\* it acts for as it was: the row (title, updated_at) is unchanged, it is
\* not deleted, and its messages are the same.
C4_OthersUntouched ==
    [][\A u \in UserIds :
         StepActor # Some(u)
         => \A i \in DOMAIN db.conversations :
              db.conversations[i].user_id = u
              => /\ i \in DOMAIN db'.conversations
                 /\ db'.conversations[i] = db.conversations[i]
                 /\ MessagesOf(db', i) = MessagesOf(db, i)]_vars

C4_Witness ==
    /\ now > 0
    /\ \E r \in Reqs :
        LET q == req[r] IN
        /\ q.phase = "done" /\ q.user # None /\ q.conversationId # None
        /\ HasUserMessage(q)
        /\ The(q.conversationId) \in DOMAIN db.conversations
        /\ db.conversations[The(q.conversationId)].user_id # The(q.user).id
        /\ db.conversations[The(q.conversationId)].updated_at < now

ClaimNotFound == [status |-> 404, body |-> [error |-> "Conversation not found"]]

\* The database without conversation id and its messages
Erase(d, id) ==
    LET Kept(m) == m.conversation_id # id
    IN [d EXCEPT !.conversations = [i \in DOMAIN @ \ {id} |-> @[i]],
                 !.messages = SelectSeq(@, Kept)]

\* The database without the conversations and messages of users other than u
OwnOnly(d, u) ==
    LET own == {i \in DOMAIN d.conversations : d.conversations[i].user_id = u}
        Kept(m) == m.conversation_id \in own
    IN [d EXCEPT !.conversations = [i \in own |-> @[i]],
                 !.messages = SelectSeq(@, Kept)]

Responses(outcomes) == {o.res : o \in outcomes}

\* C5: in every reachable store (looked at between two requests), get, rename and delete of an id that is
\* not a conversation of the authenticated caller answer 404 'Conversation
\* not found' and change nothing, exactly as they do when no conversation
\* has the id; no response to an authenticated caller is a 403; and the
\* responses to a caller are those they get from the store without any
\* other user's conversations.
C5_NotFoundNotForbidden ==
    /\ last = None => \A u \in UserIds, id \in ConvIds :
         /\ ~Owns(db, u, id)
            => /\ GetRoute(db, u, id) = {[db |-> db, res |-> ClaimNotFound]}
               /\ DeleteRoute(db, u, id) = {[db |-> db, res |-> ClaimNotFound]}
               /\ \A t \in NewTitles :
                    RenameRoute(db, now, u, id, Some(t)) = {[db |-> db, res |-> ClaimNotFound]}
               /\ Responses(GetRoute(db, u, id)) = Responses(GetRoute(Erase(db, id), u, id))
               /\ Responses(DeleteRoute(db, u, id)) = Responses(DeleteRoute(Erase(db, id), u, id))
               /\ \A t \in OptTitles :
                    Responses(RenameRoute(db, now, u, id, t))
                    = Responses(RenameRoute(Erase(db, id), now, u, id, t))
         /\ Responses(GetRoute(db, u, id)) = Responses(GetRoute(OwnOnly(db, u), u, id))
         /\ Responses(DeleteRoute(db, u, id)) = Responses(DeleteRoute(OwnOnly(db, u), u, id))
         /\ \A t \in OptTitles :
              Responses(RenameRoute(db, now, u, id, t))
              = Responses(RenameRoute(OwnOnly(db, u), now, u, id, t))
    /\ (last # None /\ The(last).user # None /\ The(last).op \in {"get", "rename", "delete"})
       => /\ The(last).res.status \in {200, 400, 404}
          /\ The(last).res.status = 404 => The(last).res = ClaimNotFound

C5_Witness ==
    /\ last # None
    /\ The(last).op = "delete"
    /\ The(last).res = ClaimNotFound
    /\ The(last).user # None
    /\ \E i \in DOMAIN db.conversations :
         /\ The(last).id = Some(i)
         /\ db.conversations[i].user_id # The(The(last).user)
         /\ MessagesOf(db, i) # <<>>

\* C6: when a stream has completed, the text events written to the
\* client, concatenated in the order written, are the text of the message
\* the final done event carries.
C6_TokensEqualDoneMessage ==
    \A r \in Reqs :
        req[r].phase = "done"
        => /\ req[r].out # <<>>
           /\ req[r].out[Len(req[r].out)].type = "done"
           /\ TextOut(req[r]) = req[r].out[Len(req[r].out)].message
           /\ Len(SelectSeq(req[r].out, IsText)) = Len(req[r].gwSent)

C6_Witness ==
    \E r \in Reqs :
        /\ req[r].phase = "done"
        /\ Len(req[r].gwSent) >= 2
        /\ req[r].gwSent[1] # req[r].gwSent[2]

\* C7: the assistant message a request has stored has as its content the
\* text events written to the client in that request, concatenated in
\* order (the returned record and the row of the table alike).
C7_StoredEqualsShown ==
    \A r \in Reqs :
        req[r].asstMsg # None
        => /\ The(req[r].asstMsg).content = TextOut(req[r])
           /\ The(req[r].asstMsg).role = "assistant"
           /\ \E i \in DOMAIN db.messages :
                /\ db.messages[i].id = The(req[r].asstMsg).id
                /\ db.messages[i].role = "assistant"
                /\ db.messages[i].content = TextOut(req[r])

C7_Witness ==
    \E r \in Reqs :
        /\ req[r].asstMsg # None
        /\ Len(req[r].gwSent) >= 2
        /\ req[r].gwSent[1] # req[r].gwSent[2]

\* C8: (arrival) a request with a principal and a user message in its
\* history that brings no id, or the id of a conversation of the principal,
\* and whose store calls do not throw, has stored the user message in that
\* conversation before the gateway is invoked; (failure) when the gateway
\* ends a stream with a failure, before or after text events, exactly one
\* error event is written, as the last chunk, the transport is ended, the
\* database is unchanged by the step, the request has stored no assistant
\* message, and the user message it stored is still there.
C8_GatewayFailure ==
    [][\A r \in Reqs :
         LET q == req[r]
             q2 == req'[r]
         IN /\ (/\ q.phase = "new" /\ q2.phase = "streaming"
                /\ q2.user # None /\ HasUserMessage(q2)
                /\ \/ q2.conversationId = None
                   \/ Owns(db, The(q2.user).id, The(q2.conversationId)))
               => /\ q2.userMsg # None
                  /\ q2.actualConversationId # None
                  /\ \E i \in DOMAIN db'.messages :
                       /\ db'.messages[i].id = The(q2.userMsg).id
                       /\ db'.messages[i].conversation_id = The(q2.actualConversationId)
                       /\ db'.messages[i].role = "user"
                       /\ db'.messages[i].content = TriggeringMessage(q2)
            /\ (q.phase = "streaming" /\ q2.phase = "errored" /\ ~q2.storeThrew)
               => /\ \E e \in [type : {"error"}, error : {"upstream"}] :
                       q2.out = Append(q.out, e)
                  /\ \A i \in DOMAIN q.out : q.out[i].type = "text"
                  /\ q2.ended
                  /\ db' = db
                  /\ q2.asstMsg = None
                  /\ q.userMsg # None
                     => \E i \in DOMAIN db'.messages :
                          /\ db'.messages[i].id = The(q.userMsg).id
                          /\ db'.messages[i].role = "user"
      ]_vars

C8_Witness ==
    \E r \in Reqs :
        /\ req[r].phase = "errored"
        /\ ~req[r].storeThrew
        /\ req[r].userMsg # None
        /\ Len(req[r].gwSent) > 0

\* One request's transport: at most one terminal event, which is then the
\* last chunk written; the transport is ended exactly when the terminal
\* event is written; a request that reached its end has ended it; a request
\* refused before the event stream was opened got a JSON response instead
TransportOk(q) ==
    LET terminals == SelectSeq(q.out, IsTerminal) IN
    /\ Len(terminals) <= 1
    /\ Len(terminals) = 1 <=> q.ended
    /\ q.ended => IsTerminal(q.out[Len(q.out)])
    /\ q.phase \in {"done", "errored"} => q.ended
    /\ q.phase = "streaming" => ~q.ended
    /\ q.phase \in {"new", "rejected", "failed"} => (q.out = <<>> /\ ~q.ended)
    /\ q.phase \in {"rejected", "failed"} <=> q.json # None

\* C9: every step leaves every request's transport with at most one
\* terminal event (done or error), which is the last chunk and after which
\* the transport is ended at once; a request whose gateway stream ended,
\* or whose completion listener threw while storing the assistant message,
\* has its transport ended; nothing is written once it is ended.
C9_OneTerminalThenClosed ==
    [][\A r \in Reqs :
         /\ TransportOk(req'[r])
         /\ req[r].ended => (req'[r].out = req[r].out /\ req'[r].ended)
         /\ (req[r].phase = "streaming" /\ req'[r].phase # "streaming") => req'[r].ended
      ]_vars

C9_Witness ==
    \E r \in Reqs :
        /\ req[r].phase = "errored"
        /\ req[r].storeThrew
        /\ req[r].ended
        /\ Len(req[r].gwSent) > 0

\* C10: a chat request one of whose store calls threw is still streamed:
\* it gets no error response and no error event, the gateway is invoked,
\* and a completed stream ends with the done event.
C10_StoreFailureSwallowed ==
    \A r \in Reqs :
        req[r].storeThrew
        => /\ req[r].json = None
           /\ req[r].phase \in {"streaming", "done"}
           /\ \A i \in DOMAIN req[r].out : req[r].out[i].type # "error"

\* C11: a chat request whose messages field is an empty array is refused
\* as a client error before the gateway is invoked: it is answered with a
\* 400 response, it never streams (no gateway call, no chunk written, the
\* event stream never opened) and it writes nothing to the store.
C11_EmptyHistoryRejected ==
    [][\A r \in Reqs :
         (req[r].phase = "new" /\ req'[r].phase # "new" /\ req'[r].messages = Some(<<>>))
         => /\ req'[r].phase = "rejected"
            /\ req'[r].json # None
            /\ The(req'[r].json).status = 400
            /\ req'[r].out = <<>>
            /\ db' = db]_vars

\* C12: once the client of a request has gone away in mid-stream, the
\* gateway stream is cancelled (no listener of the request runs any more:
\* nothing further is written) and no assistant message is stored for the
\* request.
C12_DisconnectCancels ==
    \A r \in Reqs :
        req[r].disconnectedAt # None
        => /\ req[r].asstMsg = None
           /\ Len(req[r].out) = The(req[r].disconnectedAt)
           /\ req[r].phase # "done"

\* The row of the messages table with the given id
RowOf(d, id) == CHOOSE m \in {d.messages[i] : i \in DOMAIN d.messages} : m.id = id

Ids(rows) == [i \in DOMAIN rows |-> rows[i].id]

\* C13: when a principal's chat request without an id has completed and a
\* second request of the same principal, sent after it with the id of the
\* first's done event, has completed too, every read of that conversation
\* returns the four messages in the order user1, assistant1, user2,
\* assistant2, and the conversation's updated_at is strictly greater than
\* it was after the first request (the time of the first assistant append).
C13_SequentialAppends ==
    \A r1, r2 \in Reqs :
        LET q1 == req[r1]
            q2 == req[r2]
        IN (/\ q1.phase = "done" /\ q2.phase = "done"
            /\ q1.user # None /\ q2.user = q1.user
            /\ q1.conversationId = None /\ q1.created # None
            /\ q1.userMsg # None /\ q1.asstMsg # None
            /\ q2.conversationId = q1.out[Len(q1.out)].conversationId
            /\ q2.userMsg # None /\ q2.asstMsg # None
            /\ The(q1.asstMsg).id < The(q2.userMsg).id)
           => LET c == The(q1.created).id IN
              /\ \A g \in getConversationWithMessages(db, c, The(q1.user).id) :
                   /\ g # None
                   /\ Ids(The(g).messages) = <<The(q1.userMsg).id, The(q1.asstMsg).id,
                                               The(q2.userMsg).id, The(q2.asstMsg).id>>
                   /\ Roles(The(g).messages) = <<"user", "assistant", "user", "assistant">>
              /\ db.conversations[c].updated_at > RowOf(db, The(q1.asstMsg).id).created_at

\* C14: optional identity resolution never fails a chat request.  A
\* request that has arrived has a principal exactly when its header is
\* "Bearer <token>" with a token that verifies for a user that exists, and
\* the principal is that user; no chat request is answered 401 or 403; and
\* a request without a principal that has a messages array is passed on to
\* the handler and streams (unless the gateway call itself throws).
C14_OptionalAuthNeverFails ==
    \A r \in Reqs :
        LET q == req[r]
            h == q.authorization
        IN q.phase # "new"
           => /\ q.user # None <=> (/\ h.kind = "bearer"
                                    /\ h.token.valid
                                    /\ h.token.userId \in UserIds)
              /\ q.user # None => The(q.user).id = h.token.userId
              /\ q.json # None => The(q.json).status \notin {401, 403}
              /\ (q.user = None /\ q.messages # None /\ ~q.gwThrew)
                 => (q.json = None /\ q.phase \in {"streaming", "done", "errored"})

C14_Witness ==
    /\ \E r \in Reqs : req[r].phase # "new" /\ req[r].authorization.kind = "malformed"
                       /\ req[r].user = None /\ req[r].phase = "streaming"
    /\ \E r \in Reqs : req[r].phase = "done" /\ req[r].authorization.kind = "bearer"
                       /\ ~req[r].authorization.token.valid /\ req[r].user = None

\* The answer of strict mode to a header that resolves to no principal
StrictRejection(h) ==
    IF h.kind # "bearer"
    THEN [status |-> 401, body |-> [error |-> "Access token required"]]
    ELSE IF ~h.token.valid
         THEN [status |-> 403, body |-> [error |-> "Invalid or expired token"]]
         ELSE [status |-> 403, body |-> [error |-> "User not found"]]

\* C15: every answer of a conversation-management route (list, create,
\* get, rename, delete) to a request whose credential is missing, does not
\* verify, or names a user without a row is the authentication error of
\* strict mode, fixed by the header alone, and the step leaves the store
\* unchanged; a request whose credential verifies for an existing user is
\* served for that user and never answered 401 or 403; and strict mode
\* accepts a header exactly when optional mode resolves it to a principal,
\* the same user.
C15_StrictAuthRejects ==
    [][(last = None /\ last' # None)
       => LET l == The(last')
              h == l.authorization
          IN /\ l.op \in {"list", "create", "get", "rename", "delete"}
             /\ l.user = None <=> NoPrincipal(h)
             /\ NoPrincipal(h) => /\ l.res = StrictRejection(h)
                                  /\ l.id = None
                                  /\ db' = db
             /\ ~NoPrincipal(h) => /\ l.user = Some(h.token.userId)
                                   /\ l.res.status \notin {401, 403}
             /\ l.user # None <=> optionalAuth(h) # None
             /\ l.user # None => l.user = Some(The(optionalAuth(h)).id)
      ]_vars

C15_Witness ==
    /\ last # None
    /\ The(last).op = "delete"
    /\ The(last).user = None
    /\ The(last).authorization.kind = "bearer"
    /\ The(last).authorization.token.valid
    /\ The(last).res.status = 403
    /\ db.messages # <<>>

\* C16: in every reachable store no message row names a conversation that
\* has no row; deleteConversation(id, ownerId) returns true exactly when id
\* is a conversation of ownerId, then removes that row and every message of
\* it and leaves every other row as it was, and otherwise changes nothing;
\* a delete route answered 200 has left no row and no message of the id.
C16_DeleteCascades ==
    /\ \A i \in DOMAIN db.messages :
         db.messages[i].conversation_id \in DOMAIN db.conversations
    /\ \A u \in UserIds, id \in ConvIds :
         LET x == deleteConversation(db, id, u)
             Others(m) == m.conversation_id # id
         IN /\ x.ret <=> Owns(db, u, id)
            /\ ~x.ret => x.db = db
            /\ x.ret => /\ DOMAIN x.db.conversations = DOMAIN db.conversations \ {id}
                        /\ \A j \in DOMAIN x.db.conversations :
                             x.db.conversations[j] = db.conversations[j]
                        /\ \A i \in DOMAIN x.db.messages :
                             x.db.messages[i].conversation_id # id
                        /\ x.db.messages = SelectSeq(db.messages, Others)
    /\ (last # None /\ The(last).op = "delete" /\ The(last).res.status = 200)
       => /\ The(The(last).id) \notin DOMAIN db.conversations
          /\ \A i \in DOMAIN db.messages :
               db.messages[i].conversation_id # The(The(last).id)

C16_Witness ==
    /\ last # None
    /\ The(last).op = "delete"
    /\ The(last).res.status = 200
    /\ db.msgSeq = 2
    /\ db.messages = <<>>
    /\ db.conversations # <<>>

\* C17: messages are append-only and ordered.  No step changes the role,
\* content or conversation of a message row whose conversation still
\* exists after the step, or removes such a row; every row has the role
\* 'user' or 'assistant'; and every read of a conversation returns its
\* messages in the order in which they were appended, rows of equal
\* creation timestamp included.
C17_AppendOnlyOrdered ==
    [][/\ \A i \in DOMAIN db.messages :
            db.messages[i].conversation_id \in DOMAIN db'.conversations
            => \E j \in DOMAIN db'.messages : db'.messages[j] = db.messages[i]
       /\ \A i \in DOMAIN db'.messages : db'.messages[i].role \in {"user", "assistant"}
       /\ \A c \in DOMAIN db'.conversations :
            \A s \in OrderedMessages(db', c) : Ids(s) = Ids(MessagesOf(db', c))
      ]_vars

\* C18: in every reachable users table no two rows have the same non-null
\* email, and no two rows have the same auth provider together with the
\* same non-null external id, whatever registrations (both halves of two
\* registrations of one email interleaved included) and OAuth sign-ins
\* have run.
C18_UsersUnique ==
    \A i, j \in DOMAIN users.rows :
        i # j
        => /\ users.rows[i].email # None => users.rows[i].email # users.rows[j].email
           /\ users.rows[i].oauth_id # None
              => ~(/\ users.rows[i].auth_provider = users.rows[j].auth_provider
                   /\ users.rows[i].oauth_id = users.rows[j].oauth_id)

C18_Witness ==
    /\ \E k1, k2 \in Regs :
         /\ auth.regs[k1].phase = "registered"
         /\ auth.regs[k2].phase = "failed"
         /\ auth.regs[k1].email = auth.regs[k2].email
    /\ \E i \in DOMAIN users.rows : users.rows[i].oauth_id # None

\* C19: in every reachable users table, an OAuth sign-in (provider,
\* external id, email) whose pair no row has and whose email a row has
\* creates no row and does not throw; it returns that row's user, whose row
\* gains the provider and the external id and keeps its id, email and
\* password hash; every other row is unchanged; and every local sign-in
\* with that email that was granted before is granted after, to the same
\* user.
C19_LinkKeepsPassword ==
    \A provider \in Providers, oauthId \in OauthIds, email \in RegEmails :
        (getUserByOAuth(users, provider, oauthId) = None /\ emailExists(users, email))
        => LET x == findOrCreateOAuthUser(users, provider, oauthId, Some(email))
               old == The(getUserByEmail(users, email))
           IN /\ ~x.threw
              /\ x.ret = Some(old.id)
              /\ DOMAIN x.users.rows = DOMAIN users.rows
              /\ x.users.seq = users.seq
              /\ \A i \in DOMAIN users.rows \ {old.id} : x.users.rows[i] = users.rows[i]
              /\ x.users.rows[old.id].id = old.id
              /\ x.users.rows[old.id].email = old.email
              /\ x.users.rows[old.id].password_hash = old.password_hash
              /\ x.users.rows[old.id].auth_provider = provider
              /\ x.users.rows[old.id].oauth_id = Some(oauthId)
              /\ \A password \in Passwords :
                   LoginRoute(users, Some(email), Some(password)) = Granted(old.id)
                   => LoginRoute(x.users, Some(email), Some(password)) = Granted(old.id)

\* A local account was linked by an OAuth sign-in and its owner has then
\* signed in with the password
C19_Witness ==
    /\ auth.last # None
    /\ The(auth.last).op = "login"
    /\ The(auth.last).res # None
    /\ The(The(auth.last).res).status = 200
    /\ \E i \in DOMAIN users.rows :
         /\ The(The(auth.last).res).user = Some(i)
         /\ users.rows[i].oauth_id # None
         /\ users.rows[i].auth_provider # "local"
         /\ users.rows[i].password_hash # None

\* C20: a get of a conversation is a pure read that the store determines.
\* The step of GET /:id for an authenticated caller leaves the store as it
\* was; its answer is 404 when the id is no conversation of the caller and
\* otherwise carries exactly the row the table has for the id; so a second
\* get with no write in between can return what the first could, and all
\* answers a get can give in one store carry the same conversation record.
C20_GetIsIdempotent ==
    [][(last = None /\ last' # None /\ The(last').op = "get" /\ The(last').user # None)
       => LET l == The(last')
              u == The(l.user)
              id == The(l.id)
              row == getConversationById(db, id, u)
          IN /\ db' = db
             /\ getConversationById(db', id, u) = row
             /\ GetRoute(db', u, id) = GetRoute(db, u, id)
             /\ row = None => l.res = ClaimNotFound
             /\ row # None
                => /\ l.res.status = 200
                   /\ l.res.body.conversation.conversation = db.conversations[id]
                   /\ \A o \in GetRoute(db, u, id) :
                        o.res.body.conversation.conversation = The(row)
      ]_vars

C20_Witness ==
    /\ last # None
    /\ The(last).op = "get"
    /\ The(last).res.status = 200
    /\ now > 0
    /\ \E i \in DOMAIN db.conversations :
         /\ The(last).id = Some(i)
         /\ db.conversations[i].updated_at > db.conversations[i].created_at
         /\ Len(MessagesOf(db, i)) = 2

\* C21: a chat request refused for its body is answered 400, and one in
\* which a store call of step 2 or the gateway call threw is answered 500,
\* in both cases with nothing written to the event stream and the stream
\* never ended; a request with a status-code response has written no
\* event, and a request that has written an event has no status-code
\* response; a request that failed after it began to stream has as its
\* last chunk the one error event, after which the stream is ended.
C21_ErrorChannel ==
    \A r \in Reqs :
        LET q == req[r]
            errors == SelectSeq(q.out, LAMBDA e : e.type = "error")
        IN /\ q.phase = "rejected"
              => (q.json # None /\ The(q.json).status = 400 /\ q.out = <<>> /\ ~q.ended)
           /\ (q.storeThrew /\ q.phase = "failed") \/ q.gwThrew
              => (q.json # None /\ The(q.json).status = 500 /\ q.out = <<>> /\ ~q.ended)
           /\ q.json # None => (q.out = <<>> /\ q.phase \in {"rejected", "failed"})
           /\ q.out # <<>> => q.json = None
           /\ q.phase = "errored"
              => /\ q.json = None
                 /\ Len(errors) = 1
                 /\ q.out[Len(q.out)].type = "error"
                 /\ q.ended
           /\ Len(errors) > 0 => q.phase = "errored"

C21_Witness ==
    /\ \E r \in Reqs : /\ req[r].phase = "failed"
                       /\ req[r].gwThrew
                       /\ req[r].userMsg # None
    /\ \E r \in Reqs : /\ req[r].phase = "errored"
                       /\ Len(req[r].gwSent) = MaxTokens
                       /\ req[r].user # None

\* C22: the chat handler derives a title only in the step that creates the
\* conversation.  No step of a chat request changes the title of a
\* conversation that exists before the step; in particular the arrival of
\* a request that supplies the id of a conversation of its principal,
\* whatever its history, stores its user message there and leaves the
\* title as it was.
C22_TitleOnlyAtCreation ==
    [][/\ \A i \in DOMAIN db.conversations :
            /\ i \in DOMAIN db'.conversations
            /\ db'.conversations[i].title = db.conversations[i].title
       /\ \A r \in Reqs :
            LET q == req[r]
                q2 == req'[r]
            IN (/\ q.phase = "new" /\ q2.phase = "streaming"
                /\ q2.user # None /\ q2.conversationId # None /\ HasUserMessage(q2)
                /\ Owns(db, The(q2.user).id, The(q2.conversationId)))
               => /\ q2.userMsg # None
                  /\ q2.created = None
                  /\ q2.actualConversationId = q2.conversationId
                  /\ db'.conversations[The(q2.conversationId)].title
                     = db.conversations[The(q2.conversationId)].title
      ]_vars

C22_Witness ==
    \E r \in Reqs :
        LET q == req[r] IN
        /\ q.phase = "done" /\ q.user # None /\ q.conversationId # None
        /\ q.userMsg # None /\ q.asstMsg # None
        /\ Owns(db, The(q.user).id, The(q.conversationId))
        /\ db.conversations[The(q.conversationId)].title # DefaultTitle
        /\ db.conversations[The(q.conversationId)].title # TitleFor(TriggeringMessage(q))

\* C23: the order of events within one chat request.  The user message is
\* stored in the arrival step, before the gateway is invoked, and never
\* afterwards; the text events written are, one for one and in the same
\* order, the text events the gateway emitted; the assistant message is
\* stored only in the step of the gateway's final message, in which the
\* done event is then written as the last chunk; and when that store call
\* throws, no done event has been written.
C23_OrderWithinRequest ==
    [][\A r \in Reqs :
         LET q == req[r]
             q2 == req'[r]
             texts == SelectSeq(q2.out, IsText)
         IN /\ q.phase # "new" => q2.userMsg = q.userMsg
            /\ (q.phase = "new" /\ q2.userMsg # None)
               => /\ q2.phase \in {"streaming", "failed"}
                  /\ q2.gwSent = <<>> /\ q2.out = <<>>
                  /\ \E i \in DOMAIN db'.messages :
                       db'.messages[i].id = The(q2.userMsg).id
            /\ Len(texts) = Len(q2.gwSent)
            /\ \A i \in DOMAIN texts : texts[i].content = q2.gwSent[i]
            /\ \A i \in DOMAIN q2.out :
                 q2.out[i].type = "text" => \A j \in 1..(i - 1) : q2.out[j].type = "text"
            /\ (q.asstMsg = None /\ q2.asstMsg # None)
               => /\ q.phase = "streaming" /\ q2.phase = "done"
                  /\ q2.gwSent = q.gwSent
                  /\ q2.out = Append(q.out, q2.out[Len(q2.out)])
                  /\ q2.out[Len(q2.out)].type = "done"
                  /\ The(q2.asstMsg).content = Concat(q.gwSent)
                  /\ q.userMsg # None => The(q.userMsg).id < The(q2.asstMsg).id
            /\ q.asstMsg # None => q2.asstMsg = q.asstMsg
            /\ (q2.storeThrew /\ q2.phase = "errored")
               => \A i \in DOMAIN q2.out : q2.out[i].type # "done"
      ]_vars

C23_Witness ==
    \E r \in Reqs :
        LET q == req[r] IN
        /\ q.phase = "done"
        /\ q.userMsg # None /\ q.asstMsg # None
        /\ The(q.userMsg).id < The(q.asstMsg).id
        /\ Len(q.gwSent) = MaxTokens
        /\ q.gwSent[1] # q.gwSent[MaxTokens]
        /\ Len(q.out) = MaxTokens + 1

\* C24: chat requests in flight together share no state.  A step changes
\* the state of at most one request; and each request's principal is the
\* one its own header resolves to, its accumulated text and the text
\* events written to its transport are exactly the text events of its own
\* gateway stream, the assistant message stored for it has that text and
\* lies in the conversation the request resolved, and its done event
\* carries that conversation id.
C24_RequestsIndependent ==
    [][/\ \A r1, r2 \in Reqs :
            (r1 # r2 /\ req'[r1] # req[r1]) => req'[r2] = req[r2]
       /\ \A r \in Reqs :
            LET q == req'[r] IN
            q.phase # "new"
            => /\ q.user = optionalAuth(q.authorization)
               /\ q.fullResponse = Concat(q.gwSent)
               /\ TextOut(q) = Concat(q.gwSent)
               /\ q.asstMsg # None
                  => /\ The(q.asstMsg).content = Concat(q.gwSent)
                     /\ Some(The(q.asstMsg).conversation_id) = q.actualConversationId
                     /\ RowOf(db', The(q.asstMsg).id).content = Concat(q.gwSent)
                     /\ Owns(db', The(q.user).id, The(q.asstMsg).conversation_id)
               /\ q.phase = "done"
                  => q.out[Len(q.out)].conversationId = q.actualConversationId
      ]_vars

\* Two requests of different users were in flight together, with streams
\* of different lengths, and both have stored their assistant message
C24_Witness ==
    \E r1, r2 \in Reqs :
        LET q1 == req[r1]
            q2 == req[r2]
        IN /\ q1.phase = "done" /\ q2.phase = "done"
           /\ q1.user # None /\ q2.user # None /\ q1.user # q2.user
           /\ q1.userMsg # None /\ q1.asstMsg # None
           /\ q2.userMsg # None /\ q2.asstMsg # None
           /\ The(q2.userMsg).id < The(q1.asstMsg).id
           /\ The(q1.userMsg).id < The(q2.asstMsg).id
           /\ Len(q1.gwSent) = 1 /\ Len(q2.gwSent) = 2

\* C25: in the step that writes a done event, a request without a
\* principal writes one that carries no conversation id, whatever the
\* client supplied; and when the done event carries an id, a conversation
\* with that id exists after the step, belongs to the request's principal,
\* and holds the user message and the assistant message this request has
\* stored.
C25_DoneIdIsResolved ==
    [][\A r \in Reqs :
         LET q == req'[r]
             e == q.out[Len(q.out)]
         IN (req[r].phase = "streaming" /\ q.phase = "done")
            => /\ q.user = None => e.conversationId = None
               /\ e.conversationId # None
                  => LET id == The(e.conversationId) IN
                     /\ q.user # None
                     /\ Owns(db', The(q.user).id, id)
                     /\ q.userMsg # None /\ q.asstMsg # None
                     /\ \E i, j \in DOMAIN MessagesOf(db', id) :
                          /\ MessagesOf(db', id)[i].id = The(q.userMsg).id
                          /\ MessagesOf(db', id)[j].id = The(q.asstMsg).id
      ]_vars

\* C26: when the conversation of a streaming chat request, in which the
\* request has stored its user message, has been deleted, the step that
\* ends the request's stream changes nothing in the store (the conversation
\* is not created again, no message row is inserted), stores no assistant
\* message, and ends the transport; when that step is the gateway's final
\* message and the store call does not throw, its last chunk is the done
\* event, carrying the id of the deleted conversation, with no error event.
C26_DeletedWhileStreaming ==
    [][\A r \in Reqs :
         LET q == req[r]
             q2 == req'[r]
         IN (/\ q.phase = "streaming" /\ q2.phase # "streaming"
             /\ q.userMsg # None
             /\ The(q.actualConversationId) \notin DOMAIN db.conversations)
            => /\ db' = db
               /\ q2.asstMsg = None
               /\ q2.ended
               /\ q2.phase = "done"
                  => /\ q2.out = Append(q.out, [type |-> "done",
                                                message |-> Concat(q.gwSent),
                                                conversationId |-> q.actualConversationId])
                     /\ \A i \in DOMAIN q2.out : q2.out[i].type # "error"
                     /\ q2.json = None
      ]_vars

C26_Witness ==
    \E r \in Reqs :
        LET q == req[r] IN
        /\ q.phase = "done"
        /\ q.user # None /\ q.userMsg # None /\ q.asstMsg = None
        /\ The(q.actualConversationId) \notin DOMAIN db.conversations
        /\ db.msgSeq = 1 /\ db.messages = <<>>
        /\ q.out[Len(q.out)].type = "done"


\* C27: against this server the chain of calls fetchUser ->
\* refreshAccessToken -> fetchUser refreshes the token at most once, and
\* the step in which a response to /me or /refresh arrives and no further
\* request is sent ends the chain in one of three ways: the request failed
\* on the network, or the user is set, or the access token, the refresh
\* token and the stored tokens are all cleared.
C27_RefreshChainEnds ==
    [][/\ \A f \in authManager'.inflight : f.refreshes <= 1
       /\ \A f \in authManager.inflight \ authManager'.inflight :
            (/\ f.kind \in {"me", "refresh"}
             /\ authManager'.sent = authManager.sent)
            => \/ The(authManager'.answered).status = 0
               \/ authManager'.user # None
               \/ /\ authManager'.accessToken = None
                  /\ authManager'.refreshToken = None
                  /\ authManager'.localStorage = None
      ]_vars

\* the stored access token was refused, one refresh was made, and the
\* second /me answered with the user
C27_Witness ==
    /\ authManager.answered # None
    /\ The(authManager.answered).fetch.kind = "me"
    /\ The(authManager.answered).fetch.refreshes = 1
    /\ The(authManager.answered).status = 200
    /\ authManager.sent = 3
    /\ authManager.user # None
    /\ authManager.inflight = {}


\* C28: in every state of the AuthManager a user that is set comes with an
\* access token, and from clearTokens until login is next called the user
\* and the access token stay unset, whatever responses arrive.
C28_LoggedOutStays ==
    /\ authManager.user # None => authManager.accessToken # None
    /\ authManager.loggedOut
       => authManager.user = None /\ authManager.accessToken = None


\* C29: from newChat until sendMessage is next called, the client's
\* messages are empty and its currentConversationId is unset, whatever
\* chunks of earlier responses arrive meanwhile.
C29_NewChatStaysEmpty ==
    wrightChat.fresh
    => /\ wrightChat.messages = <<>>
       /\ wrightChat.currentConversationId = None

\* C30: however the reader cut the server's event stream into chunks, once
\* the whole stream has been read the client has handled every event once
\* and in the order sent: the accumulated text is the concatenation of the
\* text events sent, and the terminal event was handled once, after them.
C30_EveryEventOnce ==
    \A i \in DOMAIN wrightChat.streams :
        LET s == wrightChat.streams[i] IN
        s.unread = <<>>
        => /\ s.accumulatedText = ContentOf(SelectSeq(s.events, IsText))
           /\ s.handled = [k \in 1..Len(s.events) |-> k]

====
